---- MODULE Spec2Model ----
(***************************************************************************)
(* Change-detection and incremental-publishing pipeline of the Magticom    *)
(* news reposter.  Two snapshots of Run() are modelled:                    *)
(*   "perItem"    src/repost_magti_news.go  (ledger saved after each post) *)
(*   "scanAnchor" src/unnamed/part_000      (scan until the stored URL,    *)
(*                                           ledger saved once per batch)  *)
(* A URL is a number in 1..MaxUrl; NoURL is Go's empty string.  The        *)
(* listing is newest-first.  Only URL equality is ever used by the code.   *)
(***************************************************************************)
EXTENDS Integers, Sequences, FiniteSets, TLC

\* ---- bounds ----
MaxLen == 3
MaxUrl == 3
MaxRuns == 2

\* ---- program constants ----
NoURL == 0

URLs == 1..MaxUrl
Procs == {1, 2}
Variants == {"perItem", "scanAnchor"}
Running == {"load", "fetch", "loop", "save", "post", "savebatch", "recover", "recsave"}
Ended == {"done", "fatal", "crashed"}

VARIABLES
  variant,      \* which snapshot of Run() is deployed
  listing,      \* the remote news page: URLs, newest first
  nextUrl,      \* the next URL the vendor will publish
  ledgerFile,   \* the last-post data file on disk
  pc,           \* position of each process inside Run()
  lastPostData, \* lastPostData.LastPostURL of each process
  news,         \* the slice returned by fetchWonderDaysNews
  newItems,     \* scanAnchor: items collected before the stored URL
  foundLastPost,\* scanAnchor: the stored URL was met during the scan
  lastPostURL,  \* scanAnchor: newItems[0].URL remembered for the save
  i,            \* loop index (1-based; the Go index is i-1)
  calls,        \* history: sendToTelegram calls of the current run
  writes,       \* history: URLs successfully saved by the current run
  fileAtStart,  \* history: ledgerFile when the current run started
  saveFailed,   \* history: a saveLastPostData of the current run failed
  prev,         \* history: summary of the previous run
  everSent,     \* history: URLs that received a sendToTelegram call in any run
  resent,       \* history: some URL received a second sendToTelegram call
  clean,        \* history: fresh ledger, no failure, listing only prepended
  fileSeen,     \* history: the ledgerFile each process last read or wrote
  lostUpdate,   \* history: a save replaced a ledgerFile its process never saw
  runs,         \* number of runs started
  fmt,          \* one parseHtmlContent call: document, position, content
  store,        \* the set-form ledger and its run
  ext           \* one fetchWonderDaysNews call: entries, position, items

pipeVars == <<variant, listing, nextUrl, ledgerFile, pc, lastPostData, news,
          newItems, foundLastPost, lastPostURL, i, calls, writes,
          fileAtStart, saveFailed, prev, everSent, resent, clean,
          fileSeen, lostUpdate, runs>>
auxVars == <<fmt, store, ext>>
vars == <<pipeVars, auxVars>>

procVars == <<pc, lastPostData, news, newItems, foundLastPost, lastPostURL, i>>
histVars == <<calls, writes, fileAtStart, saveFailed, prev, everSent, resent,
             clean, runs>>

\* ---- helpers ----
Range(s) == {s[k] : k \in 1..Len(s)}

\* position of url u in sequence s (first occurrence), 0 when absent
IndexOf(s, u) ==
  IF u \in Range(s) THEN CHOOSE k \in 1..Len(s) : s[k] = u /\ \A j \in 1..(k-1) : s[j] # u
  ELSE 0

\* every sendToTelegram call of a call history returned nil
AllSendsOk(cs) == \A k \in 1..Len(cs) : cs[k].ok

\* the listing <<n, n-1, ..., 1>>
Descending(n) == [k \in 1..n |-> n + 1 - k]

\* ---- the ledger file ----
FileMissing == [state |-> "missing", url |-> NoURL]
FileCorrupt == [state |-> "corrupt", url |-> NoURL]
FileWith(u) == [state |-> "ok", url |-> u]
FileStates == {FileMissing, FileCorrupt} \cup {FileWith(u) : u \in URLs \cup {NoURL}}

\* loadLastPostData: a missing file is an empty struct, an unreadable or
\* unparsable one is an error
loadLastPostData(f) ==
  IF f.state = "missing" THEN [err |-> FALSE, url |-> NoURL]
  ELSE IF f.state = "corrupt" THEN [err |-> TRUE, url |-> NoURL]
  ELSE [err |-> FALSE, url |-> f.url]

\* Run: on a load error continue with &LastPostData{}
LoadedURL(f) ==
  IF loadLastPostData(f).err THEN NoURL ELSE loadLastPostData(f).url

\* saveLastPostData on success: the file holds the given URL
saveLastPostData(u) == FileWith(u)

\* the URL the persisted ledger yields to the next reader
Pointer == LoadedURL(ledgerFile)

NoRun ==
  [status |-> "none", news |-> <<>>, calls |-> <<>>, saveFailed |-> FALSE]

\* no parseHtmlContent call, no set-form run, no fetchWonderDaysNews call
FmtIdle == [pc |-> "idle"]
StoreIdle == [pc |-> "idle"]
ExtIdle == [pc |-> "idle"]

Init ==
  /\ fmt = FmtIdle /\ store = StoreIdle /\ ext = ExtIdle
  /\ variant \in Variants
  /\ \E n \in 0..MaxLen : listing = Descending(n) /\ nextUrl = n + 1
  /\ ledgerFile \in FileStates
  /\ pc = [p \in Procs |-> "idle"]
  /\ lastPostData = [p \in Procs |-> NoURL]
  /\ news = [p \in Procs |-> <<>>]
  /\ newItems = [p \in Procs |-> <<>>]
  /\ foundLastPost = [p \in Procs |-> FALSE]
  /\ lastPostURL = [p \in Procs |-> NoURL]
  /\ i = [p \in Procs |-> 0]
  /\ calls = [p \in Procs |-> <<>>]
  /\ writes = [p \in Procs |-> <<>>]
  /\ fileAtStart = [p \in Procs |-> ledgerFile]
  /\ saveFailed = [p \in Procs |-> FALSE]
  /\ prev = NoRun
  /\ everSent = {}
  /\ resent = FALSE
  /\ clean = (ledgerFile = FileMissing)
  /\ fileSeen = [p \in Procs |-> ledgerFile]
  /\ lostUpdate = FALSE
  /\ runs = 0

\* no run is in progress
NoneRunning == \A q \in Procs : pc[q] \notin Running

\* ---- the vendor's page ----
\* A run reads the page once (FetchOk), so a change of the page during a run
\* is indistinguishable from one just before or just after it: the page
\* changes between runs.
\* a newer announcement appears at the front of the listing
Prepend ==
  /\ NoneRunning
  /\ Len(listing) < MaxLen
  /\ nextUrl <= MaxUrl
  /\ listing' = <<nextUrl>> \o listing
  /\ nextUrl' = nextUrl + 1
  /\ UNCHANGED <<auxVars, fileSeen, lostUpdate, variant, ledgerFile, procVars, histVars>>

\* the oldest announcement ages out of the listing window
Remove ==
  /\ NoneRunning
  /\ Len(listing) > 0
  /\ listing' = SubSeq(listing, 1, Len(listing) - 1)
  /\ clean' = FALSE
  /\ UNCHANGED <<auxVars, fileSeen, lostUpdate, variant, nextUrl, ledgerFile, procVars, calls, writes,
                 fileAtStart, saveFailed, prev, everSent, resent, runs>>

\* ---- Run(): start-up, common to both snapshots ----
\* the summary of the run that process p has just ended
Summary(p) ==
  [status |-> pc[p], news |-> news[p], calls |-> calls[p],
   saveFailed |-> saveFailed[p]]

\* cron starts the program; runs do not overlap
Start(p) ==
  /\ runs < MaxRuns
  /\ NoneRunning
  /\ \A q \in Procs : q >= p
  /\ pc' = [pc EXCEPT ![p] = "load"]
  /\ lastPostData' = [lastPostData EXCEPT ![p] = NoURL]
  /\ news' = [news EXCEPT ![p] = <<>>]
  /\ newItems' = [newItems EXCEPT ![p] = <<>>]
  /\ foundLastPost' = [foundLastPost EXCEPT ![p] = FALSE]
  /\ lastPostURL' = [lastPostURL EXCEPT ![p] = NoURL]
  /\ i' = [i EXCEPT ![p] = 0]
  /\ calls' = [calls EXCEPT ![p] = <<>>]
  /\ writes' = [writes EXCEPT ![p] = <<>>]
  /\ fileAtStart' = [fileAtStart EXCEPT ![p] = ledgerFile]
  /\ saveFailed' = [saveFailed EXCEPT ![p] = FALSE]
  /\ prev' = IF pc[p] \in Ended THEN Summary(p) ELSE prev
  /\ runs' = runs + 1
  /\ UNCHANGED <<auxVars, fileSeen, lostUpdate, variant, listing, nextUrl, ledgerFile, everSent, resent,
                 clean>>

\* a load that returns from Run on a read error, as the secrets and settings
\* loads do
LoadReturnOnError(p) ==
  /\ pc[p] = "load"
  /\ lastPostData' = [lastPostData EXCEPT ![p] = LoadedURL(ledgerFile)]
  /\ fileSeen' = [fileSeen EXCEPT ![p] = ledgerFile]
  /\ pc' = [pc EXCEPT ![p] =
        IF loadLastPostData(ledgerFile).err THEN "done" ELSE "fetch"]
  /\ UNCHANGED <<auxVars, lostUpdate, variant, listing, nextUrl, ledgerFile, news, newItems,
                 foundLastPost, lastPostURL, i, histVars>>

\* a load that also writes the fresh struct back when nothing could be read
LoadAndCreate(p) ==
  /\ pc[p] = "load"
  /\ lastPostData' = [lastPostData EXCEPT ![p] = LoadedURL(ledgerFile)]
  /\ ledgerFile' = IF ledgerFile.state = "ok" THEN ledgerFile
                   ELSE saveLastPostData(NoURL)
  /\ fileSeen' = [fileSeen EXCEPT ![p] = ledgerFile']
  /\ pc' = [pc EXCEPT ![p] = "fetch"]
  /\ UNCHANGED <<auxVars, lostUpdate, variant, listing, nextUrl, news, newItems, foundLastPost,
                 lastPostURL, i, histVars>>

\* a load served from the copy of the data file another process holds
LoadStale(p) ==
  /\ pc[p] = "load"
  /\ LET f == fileSeen[CHOOSE q \in Procs : q # p]
     IN /\ lastPostData' = [lastPostData EXCEPT ![p] = LoadedURL(f)]
        /\ fileSeen' = [fileSeen EXCEPT ![p] = f]
  /\ pc' = [pc EXCEPT ![p] = "fetch"]
  /\ UNCHANGED <<auxVars, lostUpdate, variant, listing, nextUrl, ledgerFile, news,
                 newItems, foundLastPost, lastPostURL, i, histVars>>

\* lastPostData, err := loadLastPostData(); on error use &LastPostData{}
Load(p) ==
  /\ pc[p] = "load"
  /\ lastPostData' = [lastPostData EXCEPT ![p] = LoadedURL(ledgerFile)]
  /\ fileSeen' = [fileSeen EXCEPT ![p] = ledgerFile]
  /\ pc' = [pc EXCEPT ![p] = "fetch"]
  /\ UNCHANGED <<auxVars, lostUpdate, variant, listing, nextUrl, ledgerFile, news, newItems,
                 foundLastPost, lastPostURL, i, histVars>>

\* fetchWonderDaysNews returned an error: log.Fatalf ends the process
FetchFail(p) ==
  /\ pc[p] = "fetch"
  /\ pc' = [pc EXCEPT ![p] = "fatal"]
  /\ clean' = FALSE
  /\ UNCHANGED <<auxVars, fileSeen, lostUpdate, variant, listing, nextUrl, ledgerFile, lastPostData, news,
                 newItems, foundLastPost, lastPostURL, i, calls, writes,
                 fileAtStart, saveFailed, prev, everSent, resent, runs>>

\* a scan that takes only the newest item when no URL is stored
ScanNewestWhenUnset(nw, ptr) ==
  IF ptr = NoURL THEN SubSeq(nw, 1, 1)
  ELSE IF IndexOf(nw, ptr) = 0 THEN nw
  ELSE SubSeq(nw, 1, IndexOf(nw, ptr) - 1)

\* scanAnchor: for _, item := range news { if item.URL == LastPostURL {
\*   foundLastPost = true; break }; newItems = append(newItems, item) }
ScanNewItems(nw, ptr) ==
  IF IndexOf(nw, ptr) = 0 THEN nw ELSE SubSeq(nw, 1, IndexOf(nw, ptr) - 1)

ScanFound(nw, ptr) == IndexOf(nw, ptr) # 0

\* scanAnchor: the branch taken after the scan
ScanBranch(nw, ptr) ==
  IF Len(ScanNewItems(nw, ptr)) > 0 THEN "post"
  ELSE IF ~ScanFound(nw, ptr) /\ ptr # NoURL THEN "recover"
  ELSE "done"

\* fetchWonderDaysNews succeeded; an empty listing returns at once
FetchOk(p) ==
  /\ pc[p] = "fetch"
  /\ news' = [news EXCEPT ![p] = listing]
  /\ IF Len(listing) = 0
     THEN /\ pc' = [pc EXCEPT ![p] = "done"]
          /\ UNCHANGED <<newItems, foundLastPost, lastPostURL, i>>
     ELSE IF variant = "perItem"
     THEN /\ pc' = [pc EXCEPT ![p] = "loop"]
          /\ i' = [i EXCEPT ![p] = Len(listing)]
          /\ UNCHANGED <<newItems, foundLastPost, lastPostURL>>
     ELSE /\ newItems' = [newItems EXCEPT ![p] = ScanNewItems(listing, lastPostData[p])]
          /\ foundLastPost' = [foundLastPost EXCEPT ![p] = ScanFound(listing, lastPostData[p])]
          /\ pc' = [pc EXCEPT ![p] = ScanBranch(listing, lastPostData[p])]
          /\ lastPostURL' = [lastPostURL EXCEPT ![p] =
                IF Len(ScanNewItems(listing, lastPostData[p])) > 0
                THEN ScanNewItems(listing, lastPostData[p])[1] ELSE NoURL]
          /\ i' = [i EXCEPT ![p] = Len(ScanNewItems(listing, lastPostData[p]))]
  /\ UNCHANGED <<auxVars, fileSeen, lostUpdate, variant, listing, nextUrl, ledgerFile, lastPostData,
                 histVars>>

\* ---- the publish loops ----
\* the item visited first-to-last: newest first
ItemAtForward(s, k) == s[Len(s) + 1 - k]

\* item := news[i] with i running from len-1 down to 0: oldest first
ItemAt(s, k) == s[k]

\* one sendToTelegram call for url u by process p
Called(p, u, ok) ==
  /\ calls' = [calls EXCEPT ![p] = Append(@, [url |-> u, ok |-> ok])]
  /\ everSent' = everSent \cup {u}
  /\ resent' = (resent \/ u \in everSent)
  /\ clean' = (clean /\ ok)

\* perItem: i-- and the loop test i >= 0
ItemNext(p) ==
  /\ i' = [i EXCEPT ![p] = @ - 1]
  /\ pc' = [pc EXCEPT ![p] = IF i[p] - 1 >= 1 THEN "loop" ELSE "done"]

\* a skip test against the URL that was stored when the run started
ItemSkipStored(p) ==
  /\ variant = "perItem" /\ pc[p] = "loop"
  /\ LoadedURL(fileAtStart[p]) = ItemAt(news[p], i[p])
  /\ ItemNext(p)
  /\ UNCHANGED <<auxVars, fileSeen, lostUpdate, variant, listing, nextUrl, ledgerFile, lastPostData, news,
                 newItems, foundLastPost, lastPostURL, histVars>>

\* perItem: if lastPostData.LastPostURL == item.URL { continue }
ItemSkip(p) ==
  /\ variant = "perItem" /\ pc[p] = "loop"
  /\ lastPostData[p] = ItemAt(news[p], i[p])
  /\ ItemNext(p)
  /\ UNCHANGED <<auxVars, fileSeen, lostUpdate, variant, listing, nextUrl, ledgerFile, lastPostData, news,
                 newItems, foundLastPost, lastPostURL, histVars>>

\* perItem: sendToTelegram succeeded; lastPostData.LastPostURL = item.URL
ItemSendOk(p) ==
  /\ variant = "perItem" /\ pc[p] = "loop"
  /\ lastPostData[p] # ItemAt(news[p], i[p])
  /\ Called(p, ItemAt(news[p], i[p]), TRUE)
  /\ lastPostData' = [lastPostData EXCEPT ![p] = ItemAt(news[p], i[p])]
  /\ pc' = [pc EXCEPT ![p] = "save"]
  /\ UNCHANGED <<auxVars, fileSeen, lostUpdate, variant, listing, nextUrl, ledgerFile, news, newItems,
                 foundLastPost, lastPostURL, i, writes, fileAtStart,
                 saveFailed, prev, runs>>

\* a failed sendToTelegram that leaves the loop instead of continuing
ItemSendFailBreak(p) ==
  /\ variant = "perItem" /\ pc[p] = "loop"
  /\ lastPostData[p] # ItemAt(news[p], i[p])
  /\ Called(p, ItemAt(news[p], i[p]), FALSE)
  /\ pc' = [pc EXCEPT ![p] = "done"]
  /\ UNCHANGED <<auxVars, fileSeen, lostUpdate, variant, listing, nextUrl, ledgerFile, lastPostData, news,
                 newItems, foundLastPost, lastPostURL, i, writes, fileAtStart,
                 saveFailed, prev, runs>>

\* perItem: sendToTelegram failed; log and continue
ItemSendFail(p) ==
  /\ variant = "perItem" /\ pc[p] = "loop"
  /\ lastPostData[p] # ItemAt(news[p], i[p])
  /\ Called(p, ItemAt(news[p], i[p]), FALSE)
  /\ ItemNext(p)
  /\ UNCHANGED <<auxVars, fileSeen, lostUpdate, variant, listing, nextUrl, ledgerFile, lastPostData, news,
                 newItems, foundLastPost, lastPostURL, writes, fileAtStart,
                 saveFailed, prev, runs>>

\* perItem: saveLastPostData succeeded
ItemSaveOk(p) ==
  /\ variant = "perItem" /\ pc[p] = "save"
  /\ ledgerFile' = saveLastPostData(lastPostData[p])
  /\ fileSeen' = [fileSeen EXCEPT ![p] = ledgerFile']
  /\ lostUpdate' = (lostUpdate \/ ledgerFile # fileSeen[p])
  /\ writes' = [writes EXCEPT ![p] = Append(@, lastPostData[p])]
  /\ ItemNext(p)
  /\ UNCHANGED <<auxVars, variant, listing, nextUrl, lastPostData, news, newItems,
                 foundLastPost, lastPostURL, calls, fileAtStart, saveFailed,
                 prev, everSent, resent, clean, runs>>

\* perItem: saveLastPostData failed; only a warning is logged
ItemSaveFail(p) ==
  /\ variant = "perItem" /\ pc[p] = "save"
  /\ clean' = FALSE
  /\ saveFailed' = [saveFailed EXCEPT ![p] = TRUE]
  /\ ItemNext(p)
  /\ UNCHANGED <<auxVars, fileSeen, lostUpdate, variant, listing, nextUrl, ledgerFile, lastPostData, news,
                 newItems, foundLastPost, lastPostURL, calls, writes,
                 fileAtStart, prev, everSent, resent, runs>>

\* ---- scanAnchor: the batch ----
\* scanAnchor: i-- and the loop test i >= 0; after the loop comes the save
BatchNext(p) ==
  /\ i' = [i EXCEPT ![p] = @ - 1]
  /\ pc' = [pc EXCEPT ![p] = IF i[p] - 1 >= 1 THEN "post" ELSE "savebatch"]

\* scanAnchor: sendToTelegram(newItems[i]) succeeded
BatchSendOk(p) ==
  /\ variant = "scanAnchor" /\ pc[p] = "post"
  /\ Called(p, ItemAt(newItems[p], i[p]), TRUE)
  /\ BatchNext(p)
  /\ UNCHANGED <<auxVars, fileSeen, lostUpdate, variant, listing, nextUrl, ledgerFile, lastPostData, news,
                 newItems, foundLastPost, lastPostURL, writes, fileAtStart,
                 saveFailed, prev, runs>>

\* scanAnchor: sendToTelegram(newItems[i]) failed; log and continue
BatchSendFail(p) ==
  /\ variant = "scanAnchor" /\ pc[p] = "post"
  /\ Called(p, ItemAt(newItems[p], i[p]), FALSE)
  /\ BatchNext(p)
  /\ UNCHANGED <<auxVars, fileSeen, lostUpdate, variant, listing, nextUrl, ledgerFile, lastPostData, news,
                 newItems, foundLastPost, lastPostURL, writes, fileAtStart,
                 saveFailed, prev, runs>>

\* a batch save that advances the ledger only when every post of the batch
\* succeeded
BatchSaveOkIfSent(p) ==
  /\ variant = "scanAnchor" /\ pc[p] = "savebatch"
  /\ lastPostData' = [lastPostData EXCEPT ![p] =
        IF AllSendsOk(calls[p]) THEN lastPostURL[p] ELSE @]
  /\ ledgerFile' = IF AllSendsOk(calls[p]) THEN saveLastPostData(lastPostURL[p])
                   ELSE ledgerFile
  /\ fileSeen' = [fileSeen EXCEPT ![p] =
        IF AllSendsOk(calls[p]) THEN ledgerFile' ELSE @]
  /\ lostUpdate' = (lostUpdate \/ (AllSendsOk(calls[p]) /\ ledgerFile # fileSeen[p]))
  /\ writes' = [writes EXCEPT ![p] =
        IF AllSendsOk(calls[p]) THEN Append(@, lastPostURL[p]) ELSE @]
  /\ pc' = [pc EXCEPT ![p] = "done"]
  /\ UNCHANGED <<auxVars, variant, listing, nextUrl, news, newItems, foundLastPost,
                 lastPostURL, i, calls, fileAtStart, saveFailed, prev,
                 everSent, resent, clean, runs>>

\* scanAnchor: lastPostData.LastPostURL = lastPostURL; saveLastPostData succeeded
BatchSaveOk(p) ==
  /\ variant = "scanAnchor" /\ pc[p] = "savebatch"
  /\ lastPostData' = [lastPostData EXCEPT ![p] = lastPostURL[p]]
  /\ ledgerFile' = saveLastPostData(lastPostURL[p])
  /\ fileSeen' = [fileSeen EXCEPT ![p] = ledgerFile']
  /\ lostUpdate' = (lostUpdate \/ ledgerFile # fileSeen[p])
  /\ writes' = [writes EXCEPT ![p] = Append(@, lastPostURL[p])]
  /\ pc' = [pc EXCEPT ![p] = "done"]
  /\ UNCHANGED <<auxVars, variant, listing, nextUrl, news, newItems, foundLastPost,
                 lastPostURL, i, calls, fileAtStart, saveFailed, prev,
                 everSent, resent, clean, runs>>

\* scanAnchor: saveLastPostData failed; only a warning is logged
BatchSaveFail(p) ==
  /\ variant = "scanAnchor" /\ pc[p] = "savebatch"
  /\ lastPostData' = [lastPostData EXCEPT ![p] = lastPostURL[p]]
  /\ clean' = FALSE
  /\ saveFailed' = [saveFailed EXCEPT ![p] = TRUE]
  /\ pc' = [pc EXCEPT ![p] = "done"]
  /\ UNCHANGED <<auxVars, fileSeen, lostUpdate, variant, listing, nextUrl, ledgerFile, news, newItems,
                 foundLastPost, lastPostURL, i, calls, writes, fileAtStart,
                 prev, everSent, resent, runs>>

\* ---- scanAnchor: the "post the newest item" branch ----
\* sendToTelegram(news[0]) succeeded; LastPostURL = newestItem.URL
RecoverSendOk(p) ==
  /\ variant = "scanAnchor" /\ pc[p] = "recover"
  /\ Len(news[p]) > 0
  /\ Called(p, news[p][1], TRUE)
  /\ lastPostData' = [lastPostData EXCEPT ![p] = news[p][1]]
  /\ pc' = [pc EXCEPT ![p] = "recsave"]
  /\ UNCHANGED <<auxVars, fileSeen, lostUpdate, variant, listing, nextUrl, ledgerFile, news, newItems,
                 foundLastPost, lastPostURL, i, writes, fileAtStart,
                 saveFailed, prev, runs>>

\* sendToTelegram(news[0]) failed: nothing is saved
RecoverSendFail(p) ==
  /\ variant = "scanAnchor" /\ pc[p] = "recover"
  /\ Len(news[p]) > 0
  /\ Called(p, news[p][1], FALSE)
  /\ pc' = [pc EXCEPT ![p] = "done"]
  /\ UNCHANGED <<auxVars, fileSeen, lostUpdate, variant, listing, nextUrl, ledgerFile, lastPostData, news,
                 newItems, foundLastPost, lastPostURL, i, writes, fileAtStart,
                 saveFailed, prev, runs>>

\* saveLastPostData after the recovery post, succeeding or not
RecoverSave(p) ==
  /\ variant = "scanAnchor" /\ pc[p] = "recsave"
  /\ \/ /\ ledgerFile' = saveLastPostData(lastPostData[p])
        /\ writes' = [writes EXCEPT ![p] = Append(@, lastPostData[p])]
        /\ fileSeen' = [fileSeen EXCEPT ![p] = ledgerFile']
        /\ lostUpdate' = (lostUpdate \/ ledgerFile # fileSeen[p])
        /\ UNCHANGED <<clean, saveFailed>>
     \/ /\ clean' = FALSE
        /\ saveFailed' = [saveFailed EXCEPT ![p] = TRUE]
        /\ UNCHANGED <<ledgerFile, writes, fileSeen, lostUpdate>>
  /\ pc' = [pc EXCEPT ![p] = "done"]
  /\ UNCHANGED <<auxVars, variant, listing, nextUrl, lastPostData, news, newItems,
                 foundLastPost, lastPostURL, i, calls, fileAtStart, prev,
                 everSent, resent, runs>>

\* ---- abnormal termination ----
\* the process dies at any point of a run (kill, power loss, panic)
Crash(p) ==
  /\ pc[p] \in Running
  /\ pc' = [pc EXCEPT ![p] = "crashed"]
  /\ clean' = FALSE
  /\ UNCHANGED <<auxVars, fileSeen, lostUpdate, variant, listing, nextUrl, ledgerFile, lastPostData, news,
                 newItems, foundLastPost, lastPostURL, i, calls, writes,
                 fileAtStart, saveFailed, prev, everSent, resent, runs>>

\* ---- the specification: runs never overlap ----
\* The "recover" branch is part of the model (ScanBranch, RecoverSendOk,
\* RecoverSendFail, RecoverSave) but its guard is never satisfied after a
\* non-empty listing was fetched, so its actions are not steps of Next;
\* RecoverUnreachable below is the invariant that says so.
Next ==
  \/ Prepend
  \/ Remove
  \/ \E p \in Procs :
       \/ Start(p)
       \/ Load(p)
       \/ FetchOk(p)
       \/ FetchFail(p)
       \/ ItemSkip(p)
       \/ ItemSendOk(p)
       \/ ItemSendFail(p)
       \/ ItemSaveOk(p)
       \/ ItemSaveFail(p)
       \/ BatchSendOk(p)
       \/ BatchSendFail(p)
       \/ BatchSaveOk(p)
       \/ BatchSaveFail(p)
       \/ Crash(p)

Spec == Init /\ [][Next]_vars

\* ---- the specification: cron starts a run while another is in progress ----
\* "0 * * * * repost_magti_news": cron starts the command every hour whether
\* or not the process of the previous hour has ended, and Run takes no lock
\* on the data file.  The second process starts only this way, so it has run
\* exactly when two runs were in progress at once.
StartOverlapping(p) ==
  /\ runs < MaxRuns
  /\ pc[p] \notin Running
  /\ \E q \in Procs : q < p /\ pc[q] \in Running
  /\ pc' = [pc EXCEPT ![p] = "load"]
  /\ lastPostData' = [lastPostData EXCEPT ![p] = NoURL]
  /\ news' = [news EXCEPT ![p] = <<>>]
  /\ newItems' = [newItems EXCEPT ![p] = <<>>]
  /\ foundLastPost' = [foundLastPost EXCEPT ![p] = FALSE]
  /\ lastPostURL' = [lastPostURL EXCEPT ![p] = NoURL]
  /\ i' = [i EXCEPT ![p] = 0]
  /\ calls' = [calls EXCEPT ![p] = <<>>]
  /\ writes' = [writes EXCEPT ![p] = <<>>]
  /\ fileAtStart' = [fileAtStart EXCEPT ![p] = ledgerFile]
  /\ saveFailed' = [saveFailed EXCEPT ![p] = FALSE]
  /\ prev' = IF pc[p] \in Ended THEN Summary(p) ELSE prev
  /\ runs' = runs + 1
  /\ UNCHANGED <<auxVars, fileSeen, lostUpdate, variant, listing, nextUrl,
                 ledgerFile, everSent, resent, clean>>

\* The overlap is followed through the steps that read and write the data
\* file and the listing, failed reads and saves included; a failed send and
\* a killed process are steps of Spec.
NextOverlap ==
  \/ Prepend
  \/ Remove
  \/ \E p \in Procs :
       \/ Start(p)
       \/ StartOverlapping(p)
       \/ Load(p)
       \/ FetchOk(p)
       \/ FetchFail(p)
       \/ ItemSkip(p)
       \/ ItemSendOk(p)
       \/ ItemSaveOk(p)
       \/ ItemSaveFail(p)
       \/ BatchSendOk(p)
       \/ BatchSaveOk(p)
       \/ BatchSaveFail(p)

SpecOverlap == Init /\ [][NextOverlap]_vars

\* ---- parseHtmlContent: the content formatter ----
\* A document is the sequence of the nodes that doc.Find("p, ul, li")
\* matches, in document order; depth gives the nesting.  A text is a
\* sequence of characters; the characters that matter to the code are the
\* newline, the space, the bullet, the literal entity "&nbsp;" (one token)
\* and the lari glyph.  The own text of node k is written with the letter
\* Mark(k), so that the output tells which node a piece of text came from.
MaxNodes == 2
MaxOwn == 1
MaxText == 6

NL == "\n"
SP == " "
Bullet == "bullet"
Nbsp == "&nbsp;"
Gel == "lari"
Space == {NL, SP}
Tags == {"p", "ul", "li"}

Mark(k) == ToString(k)

\* the texts of at most n characters over the characters cs
TextsOver(cs, n) == UNION {[1..m -> cs] : m \in 0..n}

\* the nodes that may stand at position m of a document
NodesAt(m) ==
  [tag : Tags, depth : 0..(m - 1),
   text : TextsOver({Mark(m), NL}, MaxOwn), gel : {FALSE}]

\* node nd can follow the nodes d in document order: it is at most one
\* level deeper than the last of them, and the HTML parser never nests a
\* p, ul or li inside a p
CanFollow(d, nd) ==
  nd.depth <= (IF d = <<>> THEN 0
               ELSE IF d[Len(d)].tag = "p" THEN d[Len(d)].depth
               ELSE d[Len(d)].depth + 1)

RECURSIVE DocsOfLen(_)
DocsOfLen(m) ==
  IF m = 0 THEN {<<>>}
  ELSE {Append(q[1], q[2]) :
          q \in {r \in DocsOfLen(m - 1) \X NodesAt(m) : CanFollow(r[1], r[2])}}

\* documents of one node with a longer text; the lari icon matters to the
\* scanAnchor snapshot only
LongDocs(v) ==
  {<<nd>> : nd \in [tag : Tags, depth : {0},
                    text : TextsOver({Mark(1), NL, Nbsp}, MaxText),
                    gel : IF v = "scanAnchor" THEN BOOLEAN ELSE {FALSE}]}

\* the documents given to the parseHtmlContent of snapshot v
Docs(v) == LongDocs(v) \cup UNION {DocsOfLen(m) : m \in 0..MaxNodes}

\* s.Text(): the text of node k and of all its descendants
RECURSIVE TextFrom(_, _, _)
TextFrom(d, k, j) ==
  IF j > Len(d) \/ (j > k /\ d[j].depth <= d[k].depth) THEN <<>>
  ELSE d[j].text \o TextFrom(d, k, j + 1)

NodeText(d, k) == TextFrom(d, k, k)

\* s.Find("span.icon-gel").Length() > 0: an icon in node k or a descendant
RECURSIVE GelFrom(_, _, _)
GelFrom(d, k, j) ==
  IF j > Len(d) \/ (j > k /\ d[j].depth <= d[k].depth) THEN FALSE
  ELSE d[j].gel \/ GelFrom(d, k, j + 1)

HasGel(d, k) == GelFrom(d, k, k)

\* strings.TrimSpace
RECURSIVE TrimLeft(_)
TrimLeft(t) == IF t # <<>> /\ Head(t) \in Space THEN TrimLeft(Tail(t)) ELSE t

RECURSIVE TrimRight(_)
TrimRight(t) ==
  IF t # <<>> /\ t[Len(t)] \in Space THEN TrimRight(SubSeq(t, 1, Len(t) - 1))
  ELSE t

TrimSpace(t) == TrimRight(TrimLeft(t))

\* strings.Contains
Contains(t, old) ==
  \E k \in 1..(Len(t) - Len(old) + 1) : SubSeq(t, k, k + Len(old) - 1) = old

\* strings.ReplaceAll: leftmost, non-overlapping occurrences
RECURSIVE ReplaceAll(_, _, _)
ReplaceAll(t, old, new) ==
  IF Len(t) < Len(old) THEN t
  ELSE IF SubSeq(t, 1, Len(old)) = old
       THEN new \o ReplaceAll(SubSeq(t, Len(old) + 1, Len(t)), old, new)
       ELSE <<Head(t)>> \o ReplaceAll(Tail(t), old, new)

\* the body of the Each callback: what node k writes to the builder
EachNode(v, d, k) ==
  LET text == TrimSpace(NodeText(d, k))
      shown == IF v = "scanAnchor" /\ HasGel(d, k)
               THEN TrimSpace(text) \o <<SP, Gel>> ELSE text
  IN IF text = <<>> THEN <<>>
     ELSE IF d[k].tag = "p" THEN shown \o <<NL, NL>>
     ELSE IF d[k].tag = "li" THEN <<Bullet, SP>> \o shown \o <<NL>>
     ELSE <<>>

\* the pipeline is not running while a single function is exercised
PipelineIdle ==
  /\ listing = <<>> /\ nextUrl = 1
  /\ ledgerFile = FileMissing
  /\ pc = [p \in Procs |-> "idle"]
  /\ lastPostData = [p \in Procs |-> NoURL]
  /\ news = [p \in Procs |-> <<>>]
  /\ newItems = [p \in Procs |-> <<>>]
  /\ foundLastPost = [p \in Procs |-> FALSE]
  /\ lastPostURL = [p \in Procs |-> NoURL]
  /\ i = [p \in Procs |-> 0]
  /\ calls = [p \in Procs |-> <<>>]
  /\ writes = [p \in Procs |-> <<>>]
  /\ fileAtStart = [p \in Procs |-> FileMissing]
  /\ saveFailed = [p \in Procs |-> FALSE]
  /\ prev = NoRun
  /\ everSent = {}
  /\ resent = FALSE
  /\ clean = TRUE
  /\ fileSeen = [p \in Procs |-> FileMissing]
  /\ lostUpdate = FALSE
  /\ runs = 0

\* the texts given to formatNewsContent.  Bang stands for the keywords that
\* get one newline appended ("!", "March:", "MB", "MIN", "OK"), Days for
\* those that get two ("Days", "app").
MaxNews == 4
Bang == "!"
Days == "Days"
NewsTexts == TextsOver({Mark(1), NL, Bang, Days}, MaxNews)

\* a call parseHtmlContent(htmlContent) of either snapshot, or a call
\* formatNewsContent(content) of the perItem snapshot
InitFormat ==
  /\ variant \in Variants
  /\ PipelineIdle
  /\ store = StoreIdle /\ ext = ExtIdle
  /\ \/ \E d \in Docs(variant) :
          fmt = [pc |-> "each", doc |-> d, k |-> 1, content |-> <<>>,
                 mid |-> <<>>, passes |-> 0]
     \/ /\ variant = "perItem"
        /\ \E t \in NewsTexts :
             fmt = [pc |-> "newsprep", doc |-> <<>>, k |-> 1, content |-> t,
                    mid |-> <<>>, passes |-> 0]

\* one call of the Each callback
FmtEach ==
  /\ fmt.pc = "each" /\ fmt.k <= Len(fmt.doc)
  /\ fmt' = [fmt EXCEPT !.content = @ \o EachNode(variant, fmt.doc, fmt.k),
                        !.k = @ + 1]
  /\ UNCHANGED <<pipeVars, store, ext>>

\* content = strings.ReplaceAll(content, "&nbsp;", " ")
FmtEntities ==
  /\ fmt.pc = "each" /\ fmt.k > Len(fmt.doc)
  /\ fmt' = [fmt EXCEPT !.content = ReplaceAll(@, <<Nbsp>>, <<SP>>),
                        !.mid = ReplaceAll(fmt.content, <<Nbsp>>, <<SP>>),
                        !.pc = "collapse"]
  /\ UNCHANGED <<pipeVars, store, ext>>

\* a newline loop that runs its body at most once
FmtCollapseOnce ==
  /\ fmt.pc = "collapse" /\ Contains(fmt.content, <<NL, NL, NL>>)
  /\ fmt' = [fmt EXCEPT
        !.content = TrimSpace(ReplaceAll(@, <<NL, NL, NL>>, <<NL, NL>>)),
        !.passes = @ + 1,
        !.pc = "done"]
  /\ UNCHANGED <<pipeVars, store, ext>>

\* a loop body whose replacement is as long as what it replaces
FmtCollapseSameLength ==
  /\ fmt.pc = "collapse" /\ Contains(fmt.content, <<NL, NL, NL>>)
  /\ fmt' = [fmt EXCEPT
        !.content = ReplaceAll(@, <<NL, NL, NL>>, <<NL, SP, NL>>),
        !.passes = @ + 1]
  /\ UNCHANGED <<pipeVars, store, ext>>

\* one iteration of: for strings.Contains(content, "\n\n\n") { ReplaceAll }
FmtCollapse ==
  /\ fmt.pc = "collapse" /\ Contains(fmt.content, <<NL, NL, NL>>)
  /\ fmt' = [fmt EXCEPT
        !.content = ReplaceAll(@, <<NL, NL, NL>>, <<NL, NL>>),
        !.passes = @ + 1]
  /\ UNCHANGED <<pipeVars, store, ext>>

\* return strings.TrimSpace(content)
FmtTrim ==
  /\ fmt.pc = "collapse" /\ ~Contains(fmt.content, <<NL, NL, NL>>)
  /\ fmt' = [fmt EXCEPT !.content = TrimSpace(@), !.pc = "done"]
  /\ UNCHANGED <<pipeVars, store, ext>>

\* formatNewsContent: TrimSpace, then a line break after each keyword
NewsReplace ==
  /\ fmt.pc = "newsprep"
  /\ LET broken == ReplaceAll(ReplaceAll(TrimSpace(fmt.content),
                                         <<Bang>>, <<Bang, NL>>),
                              <<Days>>, <<Days, NL, NL>>)
     IN fmt' = [fmt EXCEPT !.content = broken, !.mid = broken,
                           !.pc = "newsloop"]
  /\ UNCHANGED <<pipeVars, store, ext>>

\* formatNewsContent: one iteration of its newline loop
NewsCollapse ==
  /\ fmt.pc = "newsloop" /\ Contains(fmt.content, <<NL, NL, NL>>)
  /\ fmt' = [fmt EXCEPT
        !.content = ReplaceAll(@, <<NL, NL, NL>>, <<NL, NL>>),
        !.passes = @ + 1]
  /\ UNCHANGED <<pipeVars, store, ext>>

\* formatNewsContent: return content
NewsReturn ==
  /\ fmt.pc = "newsloop" /\ ~Contains(fmt.content, <<NL, NL, NL>>)
  /\ fmt' = [fmt EXCEPT !.pc = "newsdone"]
  /\ UNCHANGED <<pipeVars, store, ext>>

NextFormat ==
  \/ FmtEach
  \/ FmtEntities
  \/ FmtCollapse
  \/ FmtTrim
  \/ NewsReplace
  \/ NewsCollapse
  \/ NewsReturn

SpecFormat == InitFormat /\ [][NextFormat]_vars

\* a call runs to its return: the code is sequential and nothing suspends it
SpecFormatLive == SpecFormat /\ WF_vars(NextFormat)

\* ---- the set-form ledger (specification sections 3, 4.3 and 4.4) ----
\* The ledger is a set of {url, published_at} entries.  A run evicts the
\* entries older than the horizon, selects the listed items that have no
\* entry, and publishes them oldest first, recording each confirmed one.
MaxItems == 2
MaxTime == 3
Horizon == 1
Never == 0 - 1

StoreURLs == 1..MaxItems
StoreResting == {"idle", "done"}

\* isPublished(url): exact match on url
isPublished(es, u) == \E e \in es : e.url = u

\* an eviction that also removes the entries exactly one horizon old
evictNotYounger(es, now) == {e \in es : ~(e.at <= now - Horizon)}

\* evictOlderThan(horizon): the entries that remain
evictOlderThan(es, now) == {e \in es : ~(e.at < now - Horizon)}

\* the listed items without an entry, in the listing's order
NewOf(items, es) == SelectSeq(items, LAMBDA u : ~isPublished(es, u))

InitStore ==
  /\ variant \in Variants
  /\ PipelineIdle
  /\ fmt = FmtIdle /\ ext = ExtIdle
  /\ store = [pc |-> "idle", now |-> 0, listing |-> <<>>, next |-> 1,
              entries |-> {}, items |-> <<>>, new |-> <<>>, i |-> 0,
              calls |-> <<>>, lastAt |-> [u \in StoreURLs |-> Never],
              before |-> {}, evictOk |-> FALSE, count |-> 0, ranAt |-> 0]

\* time passes between runs
StoreTick ==
  /\ store.pc \in StoreResting /\ store.now < MaxTime
  /\ store' = [store EXCEPT !.now = @ + 1]
  /\ UNCHANGED <<pipeVars, fmt, ext>>

\* a newer announcement appears at the front of the listing
StoreAppear ==
  /\ store.pc \in StoreResting /\ store.next <= MaxItems
  /\ store' = [store EXCEPT !.listing = <<store.next>> \o @, !.next = @ + 1]
  /\ UNCHANGED <<pipeVars, fmt, ext>>

\* the oldest announcement ages out of the listing window
StoreExpire ==
  /\ store.pc \in StoreResting /\ store.listing # <<>>
  /\ store' = [store EXCEPT !.listing = SubSeq(@, 1, Len(@) - 1)]
  /\ UNCHANGED <<pipeVars, fmt, ext>>

\* a run starts and obtains the listing
StoreStart ==
  /\ store.pc \in StoreResting
  /\ store' = [store EXCEPT !.pc = "evict", !.items = store.listing,
                            !.new = <<>>, !.i = 0, !.calls = <<>>,
                            !.before = store.entries, !.evictOk = FALSE,
                            !.count = 0, !.ranAt = store.now]
  /\ UNCHANGED <<pipeVars, fmt, ext>>

\* evictOlderThan(horizon), once per run before dispatch
StoreEvict ==
  /\ store.pc = "evict"
  /\ store' = [store EXCEPT
        !.entries = evictOlderThan(@, store.now),
        !.count = Cardinality(store.entries
                              \ evictOlderThan(store.entries, store.now)),
        !.evictOk = TRUE,
        !.pc = "select"]
  /\ UNCHANGED <<pipeVars, fmt, ext>>

\* an eviction failure is logged, not fatal
StoreEvictFail ==
  /\ store.pc = "evict"
  /\ store' = [store EXCEPT !.pc = "select"]
  /\ UNCHANGED <<pipeVars, fmt, ext>>

\* step 1 and 2: partition into new[]; nothing to publish when it is empty
StoreSelect ==
  /\ store.pc = "select"
  /\ store' = [store EXCEPT
        !.new = NewOf(store.items, store.entries),
        !.i = Len(NewOf(store.items, store.entries)),
        !.pc = IF NewOf(store.items, store.entries) = <<>> THEN "done"
               ELSE "publish"]
  /\ UNCHANGED <<pipeVars, fmt, ext>>

\* step 4: the sink confirms; recordPublished(url) at once
StorePublishOk ==
  /\ store.pc = "publish"
  /\ LET u == store.new[store.i] IN
     store' = [store EXCEPT
        !.calls = Append(@, [url |-> u, ok |-> TRUE, last |-> store.lastAt[u]]),
        !.entries = IF isPublished(@, u) THEN @
                    ELSE @ \cup {[url |-> u, at |-> store.now]},
        !.lastAt = [@ EXCEPT ![u] = store.now],
        !.i = @ - 1,
        !.pc = IF store.i = 1 THEN "done" ELSE "publish"]
  /\ UNCHANGED <<pipeVars, fmt, ext>>

\* step 4: the sink fails; the item is not recorded and the queue goes on
StorePublishFail ==
  /\ store.pc = "publish"
  /\ LET u == store.new[store.i] IN
     store' = [store EXCEPT
        !.calls = Append(@, [url |-> u, ok |-> FALSE, last |-> store.lastAt[u]]),
        !.i = @ - 1,
        !.pc = IF store.i = 1 THEN "done" ELSE "publish"]
  /\ UNCHANGED <<pipeVars, fmt, ext>>

NextStore ==
  \/ StoreTick
  \/ StoreAppear
  \/ StoreExpire
  \/ StoreStart
  \/ StoreEvict
  \/ StoreEvictFail
  \/ StoreSelect
  \/ StorePublishOk
  \/ StorePublishFail

SpecStore == InitStore /\ [][NextStore]_vars

\* ---- fetchWonderDaysNews: the item extractor ----
\* The listing page is the sequence of the anchors the selector matches.
\* Anchor k links to article k, by an absolute or a relative href, or has no
\* href at all; its title may or may not contain "Wonder Days".
MaxEntries == 2

Anchors ==
  [wonder : BOOLEAN, href : BOOLEAN, abs : BOOLEAN]

Pages == UNION {[1..m -> Anchors] : m \in 0..MaxEntries}

\* the perItem snapshot keeps the anchors titled "Wonder Days" that have an
\* href, the scanAnchor snapshot every anchor that has an href
Retained(v, a) == a.href /\ (v = "perItem" => a.wonder)

\* the absolute URL of anchor k: the site origin is prefixed to a relative one
AbsURL(k) == [path |-> k, abs |-> TRUE]

\* the positions of the retained anchors of page pg, in the page's order
RetainedAt(v, pg) ==
  SelectSeq([k \in 1..Len(pg) |-> k], LAMBDA k : Retained(v, pg[k]))

\* one call of fetchWonderDaysNews, followed by Run's posting loop started
\* without a stored URL
InitExtract ==
  /\ variant \in Variants
  /\ PipelineIdle
  /\ fmt = FmtIdle /\ store = StoreIdle
  /\ \E pg \in Pages :
       ext = [pc |-> "each", page |-> pg, k |-> 1, items |-> <<>>,
              fetches |-> <<>>, failed |-> {}, warnings |-> 0,
              i |-> 0, calls |-> <<>>]

\* the callback on an anchor that is not retained
ExtSkip ==
  /\ ext.pc = "each" /\ ext.k <= Len(ext.page)
  /\ ~Retained(variant, ext.page[ext.k])
  /\ ext' = [ext EXCEPT !.k = @ + 1]
  /\ UNCHANGED <<pipeVars, fmt, store>>

\* the callback on a retained anchor, fetchArticleContent succeeding
ExtFetchOk ==
  /\ ext.pc = "each" /\ ext.k <= Len(ext.page)
  /\ Retained(variant, ext.page[ext.k])
  /\ ext' = [ext EXCEPT
        !.fetches = Append(@, AbsURL(ext.k)),
        !.items = Append(@, [url |-> AbsURL(ext.k), text |-> "date",
                             section |-> "content"]),
        !.k = @ + 1]
  /\ UNCHANGED <<pipeVars, fmt, store>>

\* a failing fetchArticleContent that makes the callback return
ExtFetchFailDrop ==
  /\ ext.pc = "each" /\ ext.k <= Len(ext.page)
  /\ Retained(variant, ext.page[ext.k])
  /\ ext' = [ext EXCEPT
        !.fetches = Append(@, AbsURL(ext.k)),
        !.failed = @ \cup {AbsURL(ext.k)},
        !.warnings = @ + 1,
        !.k = @ + 1]
  /\ UNCHANGED <<pipeVars, fmt, store>>

\* the callback on a retained anchor, fetchArticleContent failing: a
\* warning is logged and the item is appended with Text and SectionContent
\* left empty
ExtFetchFail ==
  /\ ext.pc = "each" /\ ext.k <= Len(ext.page)
  /\ Retained(variant, ext.page[ext.k])
  /\ ext' = [ext EXCEPT
        !.fetches = Append(@, AbsURL(ext.k)),
        !.failed = @ \cup {AbsURL(ext.k)},
        !.warnings = @ + 1,
        !.items = Append(@, [url |-> AbsURL(ext.k), text |-> "",
                             section |-> ""]),
        !.k = @ + 1]
  /\ UNCHANGED <<pipeVars, fmt, store>>

\* return wonderDaysItems, nil; Run ends at once when there is no item
ExtReturn ==
  /\ ext.pc = "each" /\ ext.k > Len(ext.page)
  /\ ext' = [ext EXCEPT !.i = Len(ext.items),
                        !.pc = IF ext.items = <<>> THEN "done" ELSE "post"]
  /\ UNCHANGED <<pipeVars, fmt, store>>

\* Run's loop: sendToTelegram(item) builds the message from whatever Text
\* and SectionContent the item carries
ExtPost(ok) ==
  /\ ext.pc = "post"
  /\ ext' = [ext EXCEPT
        !.calls = Append(@, [item |-> ext.items[ext.i], ok |-> ok]),
        !.i = @ - 1,
        !.pc = IF ext.i = 1 THEN "done" ELSE "post"]
  /\ UNCHANGED <<pipeVars, fmt, store>>

ExtPostOk == ExtPost(TRUE)

ExtPostFail == ExtPost(FALSE)

NextExtract ==
  \/ ExtSkip
  \/ ExtFetchOk
  \/ ExtFetchFail
  \/ ExtReturn
  \/ ExtPostOk
  \/ ExtPostFail

SpecExtract == InitExtract /\ [][NextExtract]_vars

TypeOK ==
  /\ variant \in Variants
  /\ Len(listing) <= MaxLen /\ Range(listing) \subseteq URLs
  /\ ledgerFile \in FileStates
  /\ \A p \in Procs :
       /\ pc[p] \in Running \cup Ended \cup {"idle"}
       /\ lastPostData[p] \in URLs \cup {NoURL}
       /\ i[p] \in 0..MaxLen
  /\ runs \in 0..MaxRuns

\* the listing never holds a URL twice
DistinctListing == \A j, k \in 1..Len(listing) : listing[j] = listing[k] => j = k

\* no run ever reaches the "post the newest item" branch
RecoverUnreachable == \A p \in Procs : pc[p] \notin {"recover", "recsave"}

\* ---- vocabulary of the properties ----
\* the URL the ledger held when the current run of p started
PointerAtStart(p) == LoadedURL(fileAtStart[p])

\* the URLs of the sendToTelegram calls in a call history
CalledURLs(cs) == {cs[k].url : k \in 1..Len(cs)}

\* the URLs whose sendToTelegram call returned success
ConfirmedURLs(cs) == {cs[k].url : k \in {j \in 1..Len(cs) : cs[j].ok}}

\* process p has completed a run that directly follows a completed run over
\* the same listing
SecondRunSameListing(p) ==
  /\ pc[p] = "done"
  /\ prev.status = "done"
  /\ prev.news = news[p]

\* C1: over non-overlapping runs that start from a fresh ledger, with a
\* listing that only grows by prepending and with every sink call and every
\* ledger write succeeding, no URL is ever sent twice, and once a run over
\* the current listing has completed every listed URL was sent exactly once.
ExactlyOnce ==
  clean =>
    /\ ~resent
    /\ \A p \in Procs :
         (pc[p] = "done" /\ news[p] = listing) =>
           Range(listing) \subseteq everSent

\* C2: a completed run that directly follows a completed, failure-free run
\* over the same listing makes no sink call.
Idempotence ==
  \A p \in Procs :
    (SecondRunSameListing(p) /\ AllSendsOk(prev.calls) /\ ~prev.saveFailed)
      => calls[p] = <<>>

\* C3: the URL the ledger held when a run started receives no sink call
\* during that run.
NoDuplicateDelivery ==
  \A p \in Procs : PointerAtStart(p) \notin CalledURLs(calls[p])

AtLeastOnce ==
  \A p \in Procs :
    (SecondRunSameListing(p) /\ ~prev.saveFailed) =>
      \A j, k \in 1..Len(prev.calls) :
        (/\ prev.calls[j].ok
         /\ ~prev.calls[k].ok
         /\ IndexOf(prev.news, prev.calls[j].url) > IndexOf(prev.news, prev.calls[k].url))
          => prev.calls[k].url \in CalledURLs(calls[p])

\* C6: a completed scanAnchor run that started with a non-empty pointer
\* matching no item of its non-empty listing made exactly one sink call, for
\* items[0], and (when that call and the save succeeded) left the pointer at
\* items[0].url.
RecoveryBound ==
  \A p \in Procs :
    (/\ variant = "scanAnchor"
     /\ pc[p] = "done"
     /\ news[p] # <<>>
     /\ PointerAtStart(p) # NoURL
     /\ PointerAtStart(p) \notin Range(news[p]))
      => /\ Len(calls[p]) = 1
         /\ calls[p][1].url = news[p][1]
         /\ (calls[p][1].ok /\ ~saveFailed[p]) => Pointer = news[p][1]

\* the persisted pointer covers url u of listing nw: it is u or a newer item
Recorded(nw, u) ==
  /\ IndexOf(nw, Pointer) # 0
  /\ IndexOf(nw, Pointer) <= IndexOf(nw, u)

\* C7: when a run has crashed (none of its ledger writes having failed), the
\* persisted ledger covers every item it confirmed except possibly the last
\* one, and the next completed run over the same listing sends none of those
\* items again.
CrashDurability ==
  \A p \in Procs :
    /\ (pc[p] = "crashed" /\ ~saveFailed[p]) =>
         \A k \in 1..(Len(calls[p]) - 1) :
           calls[p][k].ok => Recorded(news[p], calls[p][k].url)
    /\ (pc[p] = "done" /\ prev.status = "crashed" /\ ~prev.saveFailed
        /\ prev.news = news[p]) =>
         \A k \in 1..(Len(prev.calls) - 1) :
           prev.calls[k].ok => prev.calls[k].url \notin CalledURLs(calls[p])

\* C8: every URL a run writes to the ledger is the URL of an item whose sink
\* call succeeded in that run, and a run whose sink calls all failed leaves
\* the ledger file as it found it.
LedgerOnlyOnConfirmed ==
  \A p \in Procs :
    /\ Range(writes[p]) \subseteq ConfirmedURLs(calls[p])
    /\ (pc[p] \in Running \cup Ended /\ ConfirmedURLs(calls[p]) = {})
         => ledgerFile = fileAtStart[p]

\* the pointer values the ledger went through during the current run of p
PointerHistory(p) == <<PointerAtStart(p)>> \o writes[p]

\* C9: every write replaces a non-empty pointer by the URL of an item nearer
\* the front of the listing, and no write stores an empty pointer.
PointerMonotonic ==
  \A p \in Procs : \A k \in 1..Len(writes[p]) :
    /\ writes[p][k] # NoURL
    /\ (PointerHistory(p)[k] \in Range(news[p])) =>
         /\ IndexOf(news[p], writes[p][k]) # 0
         /\ IndexOf(news[p], writes[p][k]) < IndexOf(news[p], PointerHistory(p)[k])

\* C10: a run ended by a failed listing fetch made no sink call and no
\* ledger write, and the ledger file is the one the run found.
FetchFailureAborts ==
  \A p \in Procs :
    pc[p] = "fatal" =>
      /\ calls[p] = <<>>
      /\ writes[p] = <<>>
      /\ ledgerFile = fileAtStart[p]

\* C10 witness: a run was ended by a failed fetch while the ledger had no
\* readable file.
FetchFailureWitness ==
  \E p \in Procs : pc[p] = "fatal" /\ fileAtStart[p].state # "ok"

\* the items of the listing older than position k whose call succeeded
OlderConfirmed(p, k) ==
  {j \in (k+1)..Len(news[p]) : news[p][j] \in ConfirmedURLs(calls[p])}

\* C11: a failed sink call never ends the queue: when a run completes, no
\* item was called twice, a scanAnchor run has called every item of newItems,
\* and a perItem run has called every item but the one it skipped as equal to
\* the last posted URL.
FailureDoesNotAbort ==
  \A p \in Procs :
    pc[p] = "done" =>
      /\ Len(calls[p]) = Cardinality(CalledURLs(calls[p]))
      /\ variant = "scanAnchor" => CalledURLs(calls[p]) = Range(newItems[p])
      /\ variant = "perItem" =>
           \A k \in 1..Len(news[p]) :
             news[p][k] \notin CalledURLs(calls[p]) =>
               /\ news[p][k] = PointerAtStart(p)
               /\ OlderConfirmed(p, k) = {}

\* C11 witness: a completed run made a sink call after one of its calls failed.
FailureDoesNotAbortWitness ==
  \E p \in Procs :
    /\ pc[p] = "done"
    /\ \E j, k \in 1..Len(calls[p]) : j < k /\ ~calls[p][j].ok

\* the items of listing nw strictly before the first one whose URL is u
Before(nw, u) == {nw[j] : j \in 1..(IndexOf(nw, u) - 1)}

\* the items of listing nw from the first one whose URL is u to the end
FromOn(nw, u) == {nw[j] : j \in IndexOf(nw, u)..Len(nw)}

\* C15: when the pointer a run started with is the URL of a listed item, the
\* completed run has called exactly the items listed before that item.
CandidateSelection ==
  \A p \in Procs :
    (pc[p] = "done" /\ IndexOf(news[p], PointerAtStart(p)) # 0) =>
      CalledURLs(calls[p]) = Before(news[p], PointerAtStart(p))

\* C16: a completed scanAnchor run with a non-empty newItems has set its
\* pointer to items[0].url whatever the sink calls returned, and unless
\* saveLastPostData failed the ledger file holds that URL.
BatchAdvance ==
  \A p \in Procs :
    (variant = "scanAnchor" /\ pc[p] = "done" /\ newItems[p] # <<>>) =>
      /\ lastPostData[p] = news[p][1]
      /\ ~saveFailed[p] => ledgerFile = saveLastPostData(news[p][1])

\* C16 witness: a completed batch in which a sink call failed and the ledger
\* now holds items[0].url.
BatchAdvanceWitness ==
  \E p \in Procs :
    /\ variant = "scanAnchor" /\ pc[p] = "done"
    /\ Len(newItems[p]) >= 2
    /\ ~AllSendsOk(calls[p])
    /\ ledgerFile = saveLastPostData(news[p][1])
    /\ ledgerFile # fileAtStart[p]

\* C17: a completed run over an empty listing, or started with the pointer
\* at the newest listed item, made no sink call and no ledger write.
NoOpFrame ==
  \A p \in Procs :
    (pc[p] = "done" /\ (news[p] = <<>> \/ PointerAtStart(p) = news[p][1])) =>
      /\ calls[p] = <<>>
      /\ writes[p] = <<>>
      /\ ledgerFile = fileAtStart[p]

ReadFailureAsMissing ==
  [][\A p \in Procs :
       (/\ pc[p] = "load"
        /\ pc'[p] \notin {"load", "crashed"}
        /\ loadLastPostData(ledgerFile).err) =>
         /\ pc'[p] = "fetch"
         /\ lastPostData'[p] = loadLastPostData(FileMissing).url
         /\ ledgerFile' = ledgerFile]_vars

\* C19 witness: a run started on an unreadable ledger file has completed
\* and has posted every item of its listing.
ReadFailureWitness ==
  \E p \in Procs :
    /\ fileAtStart[p] = FileCorrupt
    /\ pc[p] = "done"
    /\ news[p] # <<>>
    /\ CalledURLs(calls[p]) = Range(news[p])

\* ---- the content formatter's properties ----
\* the number of occurrences of character c in text t
RECURSIVE Count(_, _)
Count(t, c) ==
  IF t = <<>> THEN 0
  ELSE (IF Head(t) = c THEN 1 ELSE 0) + Count(Tail(t), c)

\* C12: once every node has been rendered, the own text of each paragraph
\* and of each list item stands in the rendered text exactly once.
RenderedOnce ==
  fmt.pc \in {"collapse", "done"} =>
    \A k \in 1..Len(fmt.doc) :
      fmt.doc[k].tag \in {"p", "li"} =>
        Count(fmt.mid, Mark(k)) = Count(fmt.doc[k].text, Mark(k))

\* the length of the run of newlines at the head of text t
RECURSIVE RunLen(_)
RunLen(t) ==
  IF t # <<>> /\ Head(t) = NL THEN 1 + RunLen(Tail(t)) ELSE 0

\* text t with each maximal run of three or more newlines made two newlines
RECURSIVE CollapseRuns(_)
CollapseRuns(t) ==
  IF t = <<>> THEN <<>>
  ELSE IF Head(t) = NL
       THEN (IF RunLen(t) >= 3 THEN <<NL, NL>> ELSE SubSeq(t, 1, RunLen(t)))
            \o CollapseRuns(SubSeq(t, RunLen(t) + 1, Len(t)))
       ELSE <<Head(t)>> \o CollapseRuns(Tail(t))

\* C13: the returned text has no run of three newlines and no leading or
\* trailing whitespace, and it is the intermediate text with every run of
\* three or more newlines made exactly two, shorter runs kept, then trimmed.
NewlineCollapsing ==
  fmt.pc = "done" =>
    /\ ~Contains(fmt.content, <<NL, NL, NL>>)
    /\ fmt.content # <<>> =>
         Head(fmt.content) \notin Space
         /\ fmt.content[Len(fmt.content)] \notin Space
    /\ fmt.content = TrimSpace(CollapseRuns(fmt.mid))

\* C13 witness: a text with an inner run of four or more newlines was
\* returned after two iterations of the loop, the run now being two.
NewlineCollapsingWitness ==
  /\ fmt.pc = "done"
  /\ fmt.passes >= 2
  /\ Contains(fmt.mid, <<Mark(1), NL, NL, NL, NL>>)
  /\ Contains(fmt.content, <<Mark(1), NL, NL, Mark(1)>>)

\* ---- the set-form ledger's properties ----
\* after a successful eviction the entries older than the horizon are
\* absent and the younger ones are unchanged
EvictedExactly ==
  (store.pc \in {"select", "publish", "done"} /\ store.evictOk) =>
    \A e \in store.before :
      IF e.at < store.ranAt - Horizon THEN e \notin store.entries
      ELSE e \in store.entries

\* C14 as stated: eviction removes exactly the entries older than the
\* horizon, and no sink call is made for a listed item that was delivered
\* before.
EvictionNeverDuplicates ==
  /\ EvictedExactly
  /\ \A k \in 1..Len(store.calls) : store.calls[k].last = Never

\* C14 amended: eviction removes exactly the entries older than the horizon,
\* and a sink call for a listed item that was delivered before is made only
\* when that delivery is older than the horizon.
EvictionWithinHorizon ==
  /\ EvictedExactly
  /\ \A k \in 1..Len(store.calls) :
       store.calls[k].last # Never =>
         store.calls[k].last < store.ranAt - Horizon

\* C14 witness: a completed run whose eviction removed an entry and kept
\* another, the kept one belonging to a listed item that was not called.
EvictionWitness ==
  /\ store.pc = "done" /\ store.evictOk
  /\ \E e \in store.before : e \notin store.entries
  /\ \E e \in store.before :
       /\ e \in store.entries
       /\ \E k \in 1..Len(store.items) : store.items[k] = e.url
       /\ \A k \in 1..Len(store.calls) : store.calls[k].url # e.url

\* ---- the item extractor's properties ----
\* C20: whatever content fetches fail, the returned items are the retained
\* anchors in the page's order, one content fetch was made per retained
\* anchor, an item whose fetch failed has empty Text and SectionContent, and
\* the completed posting loop has called the sink once for every item.
ContentFailureNonFatal ==
  ext.pc \in {"post", "done"} =>
    LET kept == RetainedAt(variant, ext.page) IN
    /\ Len(ext.items) = Len(kept)
    /\ \A j \in 1..Len(kept) : ext.items[j].url = AbsURL(kept[j])
    /\ ext.fetches = [j \in 1..Len(kept) |-> AbsURL(kept[j])]
    /\ \A j \in 1..Len(ext.items) :
         ext.items[j].url \in ext.failed =>
           ext.items[j].text = "" /\ ext.items[j].section = ""
    /\ ext.pc = "done" =>
         /\ Len(ext.calls) = Len(ext.items)
         /\ \A j \in 1..Len(ext.calls) :
              ext.calls[j].item = ext.items[Len(ext.items) + 1 - j]

\* C20 witness: a completed run posted an item whose content fetch failed
\* and an item whose content fetch succeeded.
ContentFailureWitness ==
  /\ ext.pc = "done"
  /\ \E j, k \in 1..Len(ext.calls) :
       /\ ext.calls[j].item.url \in ext.failed
       /\ ext.calls[j].item.section = ""
       /\ ext.calls[k].item.section # ""

\* ---- first run and end of run ----
\* the URLs of a call history, in call order
CallOrder(cs) == [k \in 1..Len(cs) |-> cs[k].url]

\* sequence s back to front
Reverse(s) == [k \in 1..Len(s) |-> s[Len(s) + 1 - k]]

\* C22: a completed scanAnchor run that started without a stored URL over a
\* non-empty listing has called the sink once for every listed item, oldest
\* first, and then set the pointer to items[0].url; unless saveLastPostData
\* failed the ledger file holds that URL.
FirstRunPostsAll ==
  \A p \in Procs :
    (/\ variant = "scanAnchor" /\ pc[p] = "done"
     /\ PointerAtStart(p) = NoURL /\ news[p] # <<>>) =>
      /\ CallOrder(calls[p]) = Reverse(news[p])
      /\ lastPostData[p] = news[p][1]
      /\ ~saveFailed[p] => ledgerFile = saveLastPostData(news[p][1])

\* C22 witness: a first run over the full listing has completed and the
\* ledger, missing before, holds the newest URL.
FirstRunWitness ==
  \E p \in Procs :
    /\ variant = "scanAnchor" /\ pc[p] = "done"
    /\ fileAtStart[p] = FileMissing
    /\ Len(news[p]) = MaxLen
    /\ Len(calls[p]) = MaxLen
    /\ ledgerFile = saveLastPostData(news[p][1])

\* C23: a completed perItem run over a non-empty listing in which every sink
\* call and every ledger write succeeded leaves items[0].url as the
\* persisted pointer, whatever the pointer was when the run started.
EndOfRunPointer ==
  \A p \in Procs :
    (/\ variant = "perItem" /\ pc[p] = "done" /\ news[p] # <<>>
     /\ AllSendsOk(calls[p]) /\ ~saveFailed[p]) =>
      Pointer = news[p][1]

\* C23 witness: such a run started with the pointer already at items[0].url,
\* moved it to an older item and brought it back.
EndOfRunPointerWitness ==
  \E p \in Procs :
    /\ variant = "perItem" /\ pc[p] = "done"
    /\ Len(news[p]) >= 2
    /\ PointerAtStart(p) = news[p][1]
    /\ AllSendsOk(calls[p]) /\ ~saveFailed[p]
    /\ Len(writes[p]) >= 2
    /\ Pointer = news[p][1]

\* ---- termination of the newline loops ----
\* the call has returned
Returned == fmt.pc \in {"done", "newsdone"}

\* C24: every iteration of a newline loop leaves the text strictly shorter,
\* and every call of parseHtmlContent and of formatNewsContent returns.
CollapseTerminates ==
  /\ [][(fmt.pc \in {"collapse", "newsloop"} /\ fmt'.passes = fmt.passes + 1)
          => Len(fmt'.content) < Len(fmt.content)]_vars
  /\ <>Returned

\* C24 witness: both loops have returned after two or more iterations.
CollapseTerminatesWitness ==
  /\ Returned
  /\ fmt.passes >= 2
  /\ Len(fmt.content) + 2 <= Len(fmt.mid)
  /\ fmt.pc = "newsdone"

\* two runs have been in progress at the same time
Overlapped == pc[2] # "idle"

====
